---- MODULE Spec2Model ----
(***************************************************************************)
(* The command-line parameter types of planet/scripts/types.py: the        *)
(* lenient vocabulary matchers (ItemType, AssetType), the field/value      *)
(* parsers (StringIn, NumberIn), the range parsers (Range, DateRange) and  *)
(* the blob resolvers (GeomFilter, FilterJSON).                            *)
(*                                                                         *)
(* Text that the code inspects character by character (matcher inputs,     *)
(* vocabulary entries, value lists) is a sequence of one-character         *)
(* strings; text that the code only compares or passes on whole (field     *)
(* names, operator tokens, range values, blob contents) is a string.       *)
(***************************************************************************)
EXTENDS Integers, Sequences, FiniteSets, TLC

VARIABLES
    item_choices,   \* ItemType().choices: the list object _allowed_item_types
    asset_choices,  \* AssetType().choices: the list object _allowed_asset_types
    comp_ops,       \* Range.comp_ops
    call,           \* the conversion last run: [type, input]
    outcome,        \* what it produced: a return value, a usage failure or an exception
    calls,          \* the collaborators it invoked, in order
    first           \* the first conversion of the run and its outcome (history)

vars == <<item_choices, asset_choices, comp_ops, call, outcome, calls, first>>

----------------------------------------------------------------------------
(* The vocabularies.                                                       *)

allowed_item_types ==
  <<
     <<"P","S","S","c","e","n","e","4","B","a","n","d">>,  \* PSScene4Band
     <<"P","S","S","c","e","n","e","3","B","a","n","d">>,  \* PSScene3Band
     <<"R","E","S","c","e","n","e">>,  \* REScene
     <<"R","E","O","r","t","h","o","T","i","l","e">>,  \* REOrthoTile
     <<"S","e","n","t","i","n","e","l","2","L","1","C">>,  \* Sentinel2L1C
     <<"P","S","O","r","t","h","o","T","i","l","e">>,  \* PSOrthoTile
     <<"L","a","n","d","s","a","t","8","L","1","G">>  \* Landsat8L1G
  >>

allowed_asset_types ==
  <<
     <<"a","n","a","l","y","t","i","c">>,  \* analytic
     <<"a","n","a","l","y","t","i","c","_","b","1">>,  \* analytic_b1
     <<"a","n","a","l","y","t","i","c","_","b","1","0">>,  \* analytic_b10
     <<"a","n","a","l","y","t","i","c","_","b","1","1">>,  \* analytic_b11
     <<"a","n","a","l","y","t","i","c","_","b","1","2">>,  \* analytic_b12
     <<"a","n","a","l","y","t","i","c","_","b","2">>,  \* analytic_b2
     <<"a","n","a","l","y","t","i","c","_","b","3">>,  \* analytic_b3
     <<"a","n","a","l","y","t","i","c","_","b","4">>,  \* analytic_b4
     <<"a","n","a","l","y","t","i","c","_","b","5">>,  \* analytic_b5
     <<"a","n","a","l","y","t","i","c","_","b","6">>,  \* analytic_b6
     <<"a","n","a","l","y","t","i","c","_","b","7">>,  \* analytic_b7
     <<"a","n","a","l","y","t","i","c","_","b","8">>,  \* analytic_b8
     <<"a","n","a","l","y","t","i","c","_","b","8","a">>,  \* analytic_b8a
     <<"a","n","a","l","y","t","i","c","_","b","9">>,  \* analytic_b9
     <<"a","n","a","l","y","t","i","c","_","b","q","a">>,  \* analytic_bqa
     <<"a","n","a","l","y","t","i","c","_","d","n">>,  \* analytic_dn
     <<"a","n","a","l","y","t","i","c","_","d","n","_","x","m","l">>,  \* analytic_dn_xml
     <<"a","n","a","l","y","t","i","c","_","m","s">>,  \* analytic_ms
     <<"a","n","a","l","y","t","i","c","_","x","m","l">>,  \* analytic_xml
     <<"b","a","s","i","c","_","a","n","a","l","y","t","i","c">>,  \* basic_analytic
     <<"b","a","s","i","c","_","a","n","a","l","y","t","i","c","_","b","1">>,  \* basic_analytic_b1
     <<"b","a","s","i","c","_","a","n","a","l","y","t","i","c","_","b","1","_","n","i","t","f">>,  \* basic_analytic_b1_nitf
     <<"b","a","s","i","c","_","a","n","a","l","y","t","i","c","_","b","2">>,  \* basic_analytic_b2
     <<"b","a","s","i","c","_","a","n","a","l","y","t","i","c","_","b","2","_","n","i","t","f">>,  \* basic_analytic_b2_nitf
     <<"b","a","s","i","c","_","a","n","a","l","y","t","i","c","_","b","3">>,  \* basic_analytic_b3
     <<"b","a","s","i","c","_","a","n","a","l","y","t","i","c","_","b","3","_","n","i","t","f">>,  \* basic_analytic_b3_nitf
     <<"b","a","s","i","c","_","a","n","a","l","y","t","i","c","_","b","4">>,  \* basic_analytic_b4
     <<"b","a","s","i","c","_","a","n","a","l","y","t","i","c","_","b","4","_","n","i","t","f">>,  \* basic_analytic_b4_nitf
     <<"b","a","s","i","c","_","a","n","a","l","y","t","i","c","_","b","5">>,  \* basic_analytic_b5
     <<"b","a","s","i","c","_","a","n","a","l","y","t","i","c","_","b","5","_","n","i","t","f">>,  \* basic_analytic_b5_nitf
     <<"b","a","s","i","c","_","a","n","a","l","y","t","i","c","_","d","n">>,  \* basic_analytic_dn
     <<"b","a","s","i","c","_","a","n","a","l","y","t","i","c","_","d","n","_","n","i","t","f">>,  \* basic_analytic_dn_nitf
     <<"b","a","s","i","c","_","a","n","a","l","y","t","i","c","_","d","n","_","r","p","c">>,  \* basic_analytic_dn_rpc
     <<"b","a","s","i","c","_","a","n","a","l","y","t","i","c","_","d","n","_","r","p","c","_","n","i","t","f">>,  \* basic_analytic_dn_rpc_nitf
     <<"b","a","s","i","c","_","a","n","a","l","y","t","i","c","_","d","n","_","x","m","l">>,  \* basic_analytic_dn_xml
     <<"b","a","s","i","c","_","a","n","a","l","y","t","i","c","_","d","n","_","x","m","l","_","n","i","t","f">>,  \* basic_analytic_dn_xml_nitf
     <<"b","a","s","i","c","_","a","n","a","l","y","t","i","c","_","n","i","t","f">>,  \* basic_analytic_nitf
     <<"b","a","s","i","c","_","a","n","a","l","y","t","i","c","_","r","p","c">>,  \* basic_analytic_rpc
     <<"b","a","s","i","c","_","a","n","a","l","y","t","i","c","_","r","p","c","_","n","i","t","f">>,  \* basic_analytic_rpc_nitf
     <<"b","a","s","i","c","_","a","n","a","l","y","t","i","c","_","s","c","i">>,  \* basic_analytic_sci
     <<"b","a","s","i","c","_","a","n","a","l","y","t","i","c","_","x","m","l">>,  \* basic_analytic_xml
     <<"b","a","s","i","c","_","a","n","a","l","y","t","i","c","_","x","m","l","_","n","i","t","f">>,  \* basic_analytic_xml_nitf
     <<"b","a","s","i","c","_","u","d","m">>,  \* basic_udm
     <<"b","r","o","w","s","e">>,  \* browse
     <<"m","e","t","a","d","a","t","a","_","a","u","x">>,  \* metadata_aux
     <<"m","e","t","a","d","a","t","a","_","t","x","t">>,  \* metadata_txt
     <<"u","d","m">>,  \* udm
     <<"v","i","s","u","a","l">>,  \* visual
     <<"v","i","s","u","a","l","_","x","m","l">>  \* visual_xml
  >>

----------------------------------------------------------------------------
(* Text helpers: str.lower, str.startswith, `in`, str.replace.             *)

UpperChars ==
  <<"A","B","C","D","E","F","G","H","I","J","K","L","M",
    "N","O","P","Q","R","S","T","U","V","W","X","Y","Z">>

LowerChars ==
  <<"a","b","c","d","e","f","g","h","i","j","k","l","m",
    "n","o","p","q","r","s","t","u","v","w","x","y","z">>

char_lower(c) ==
  IF \E i \in 1..Len(UpperChars) : UpperChars[i] = c
  THEN LowerChars[CHOOSE i \in 1..Len(UpperChars) : UpperChars[i] = c]
  ELSE c

lower(s) == [i \in 1..Len(s) |-> char_lower(s[i])]

startswith(s, prefix) ==
  /\ Len(prefix) <= Len(s)
  /\ \A i \in 1..Len(prefix) : s[i] = prefix[i]

contains(s, c) == \E i \in 1..Len(s) : s[i] = c

RECURSIVE replace(_, _, _)
replace(s, old, new) ==
  IF s = <<>> THEN <<>>
  ELSE (IF Head(s) = old THEN new ELSE <<Head(s)>>) \o replace(Tail(s), old, new)

----------------------------------------------------------------------------
(* re.match(pat, string) for the patterns the matcher can build: ordinary  *)
(* characters, "." (any character), "*" (the preceding atom any number of  *)
(* times) and "[" (opens a character set, which only "]" closes).          *)

\* sre_parse raises re.error for a pattern that does not compile.
re_error(pat) ==
  \/ contains(pat, "[") /\ ~contains(pat, "]")   \* unterminated character set
  \/ pat # <<>> /\ pat[1] = "*"                    \* nothing to repeat
  \/ \E i \in 1..(Len(pat) - 1) : pat[i] = "*" /\ pat[i+1] = "*"  \* multiple repeat

atom_matches(atom, ch) == atom = "." \/ atom = ch

\* Whether pat, from its position i on, matches string from position j on.
\* The match is anchored at the start only: the string may go on after it.
RECURSIVE re_match_at(_, _, _, _)
re_match_at(pat, i, string, j) ==
  IF i > Len(pat) THEN TRUE
  ELSE IF i < Len(pat) /\ pat[i+1] = "*"
       THEN \E k \in j..(Len(string) + 1) :
              /\ \A x \in j..(k - 1) : atom_matches(pat[i], string[x])
              /\ re_match_at(pat, i + 2, string, k)
       ELSE /\ j <= Len(string)
            /\ atom_matches(pat[i], string[j])
            /\ re_match_at(pat, i + 1, string, j + 1)

re_match(pat, string) == re_match_at(pat, 1, string, 1)

----------------------------------------------------------------------------
(* Outcomes of a conversion.                                               *)

\* A value handed back to click. same_as names the vocabulary whose list
\* object the value is ("" when the value is a fresh object).
Return(value, same_as) ==
  [kind |-> "return", value |-> value, same_as |-> same_as]

\* self.fail(...) / raise click.BadParameter(...): a usage error.
Fail(message) == [kind |-> "fail", message |-> message]

\* An exception that is no usage error leaves convert.
Raise(exception) == [kind |-> "raise", exception |-> exception]

----------------------------------------------------------------------------
(* _LenientChoice                                                          *)

\* The two class attributes of each instance.
\* ItemType without its allow_all line: the attribute of the base class.
ItemType_allow_all_unset == FALSE

ItemType_allow_all == TRUE

ItemType_allow_prefix == TRUE

AssetType_allow_all == FALSE

\* AssetType given the allow_prefix line of ItemType.
AssetType_allow_prefix_set == TRUE

AssetType_allow_prefix == FALSE

\* The input compared as typed.
lval_as_given(val) == val

\* lval = val.lower()
lval_of(val) == lower(val)

\* _LenientChoice._fail: '%s choice: %s.\nChoose from:\n\t%s'
LenientChoice_fail(msg, val, choices) ==
  Fail([text |-> msg, what |-> "choice", val |-> val, choose_from |-> choices])

\* The pattern convert builds from a lowercased input holding "*".
glob_pattern(lval) == replace(lval, "*", <<".", "*">>)

\* The list comprehension of the glob branch; re.match compiles pat on its
\* first use, so a pattern that does not compile raises before any entry
\* is collected.
glob_matches(choices, lval) ==
  LET pat == glob_pattern(lval)
      Test(c) == re_match(pat, lower(c))
  IN  SelectSeq(choices, Test)

prefix_matches(choices, lval) ==
  LET Test(c) == startswith(lower(c), lval)
  IN  SelectSeq(choices, Test)

exact_matches(choices, lval) ==
  LET Test(c) == lower(c) = lval
  IN  SelectSeq(choices, Test)

\* _LenientChoice.convert narrowing self.choices to the matches instead
\* of building a new list.
LenientChoice_convert_in_place(choices, self_choices, allow_all, allow_prefix, val) ==
  LET lval == lval_of(val)
      matches ==
        IF contains(lval, "*") THEN glob_matches(choices, lval)
        ELSE IF allow_prefix THEN prefix_matches(choices, lval)
        ELSE exact_matches(choices, lval)
  IN  IF lval = <<"a", "l", "l">> /\ allow_all
      THEN [outcome |-> Return(choices, self_choices), choices |-> choices]
      ELSE IF contains(lval, "*") /\ choices # <<>> /\ re_error(glob_pattern(lval))
      THEN [outcome |-> Raise("re.error"), choices |-> choices]
      ELSE IF matches = <<>>
      THEN [outcome |-> LenientChoice_fail("invalid", val, choices),
            choices |-> choices]
      ELSE [outcome |-> Return(matches, self_choices), choices |-> matches]

\* _LenientChoice.convert on an instance whose choices list is `choices`
\* (the object named `self_choices`). The result pairs the outcome with the
\* instance's choices as the call leaves them.
LenientChoice_convert(choices, self_choices, allow_all, allow_prefix, val) ==
  LET lval == lval_of(val)
      out ==
        IF lval = <<"a", "l", "l">> /\ allow_all
        THEN Return(choices, self_choices)
        ELSE IF contains(lval, "*") /\ choices # <<>> /\ re_error(glob_pattern(lval))
        THEN Raise("re.error")
        ELSE LET matches ==
                   IF contains(lval, "*") THEN glob_matches(choices, lval)
                   ELSE IF allow_prefix THEN prefix_matches(choices, lval)
                   ELSE exact_matches(choices, lval)
             IN  IF matches = <<>>
                 THEN LenientChoice_fail("invalid", val, choices)
                 ELSE Return(matches, "")
  IN  [outcome |-> out, choices |-> choices]

----------------------------------------------------------------------------
(* _FilterFieldValues: StringIn and NumberIn                               *)

\* The characters \s matches and str.strip removes.
Whitespace == {" ", "\t", "\n", "\r", "\f"}

\* re.split('\s+|,', vals): the pieces between the delimiters, a run of
\* whitespace being one delimiter and each comma one; adjacent delimiters
\* and a delimiter at either end leave empty pieces.
RECURSIVE re_split_from(_, _, _)
re_split_from(vals, i, piece) ==
  IF i > Len(vals) THEN <<piece>>
  ELSE IF vals[i] \in Whitespace
  THEN LET rest == {j \in i..Len(vals) : vals[j] \notin Whitespace}
           stop == IF rest = {} THEN Len(vals) + 1
                   ELSE CHOOSE j \in rest : \A k \in rest : j <= k
       IN  <<piece>> \o re_split_from(vals, stop, <<>>)
  ELSE IF vals[i] = ","
  THEN <<piece>> \o re_split_from(vals, i + 1, <<>>)
  ELSE re_split_from(vals, i + 1, Append(piece, vals[i]))

re_split(vals) == re_split_from(vals, 1, <<>>)

RECURSIVE lstrip(_)
lstrip(v) ==
  IF v # <<>> /\ Head(v) \in Whitespace THEN lstrip(Tail(v)) ELSE v

RECURSIVE rstrip(_)
rstrip(v) ==
  IF v # <<>> /\ v[Len(v)] \in Whitespace
  THEN rstrip(SubSeq(v, 1, Len(v) - 1)) ELSE v

strip(v) == rstrip(lstrip(v))

Digits == <<"0", "1", "2", "3", "4", "5", "6", "7", "8", "9">>

is_digit(c) == \E i \in 1..Len(Digits) : Digits[i] = c

digit_value(c) == (CHOOSE i \in 1..Len(Digits) : Digits[i] = c) - 1

RECURSIVE int_value(_)
int_value(ds) ==
  IF ds = <<>> THEN 0
  ELSE 10 * int_value(SubSeq(ds, 1, Len(ds) - 1)) + digit_value(ds[Len(ds)])

RECURSIVE pow10(_)
pow10(k) == IF k = 0 THEN 1 ELSE 10 * pow10(k - 1)

\* A number as a fraction in lowest decimal terms: 1, 1. and 1.0 are equal.
RECURSIVE decimal(_, _)
decimal(num, den) ==
  IF den > 1 /\ num % 10 = 0 THEN decimal(num \div 10, den \div 10)
  ELSE [num |-> num, den |-> den]

\* float(v) for a token of digits, points and letters (no sign, exponent
\* or underscore): digits with at most one point and at least one digit
\* parse; everything else raises ValueError, but for the words float
\* reads as a number in any letter case.
float_words == { <<"n","a","n">>, <<"i","n","f">>,
                 <<"i","n","f","i","n","i","t","y">> }

float(v) ==
  LET points == {i \in 1..Len(v) : v[i] = "."}
      digits == SelectSeq(v, is_digit)
  IN  IF lower(v) \in float_words
      THEN [ok |-> TRUE, value |-> [word |-> lower(v)]]
      ELSE IF /\ \A i \in 1..Len(v) : is_digit(v[i]) \/ v[i] = "."
              /\ Cardinality(points) <= 1
              /\ digits # <<>>
      THEN LET frac == IF points = {} THEN 0
                       ELSE Len(v) - (CHOOSE i \in points : TRUE)
           IN  [ok |-> TRUE, value |-> decimal(int_value(digits), pow10(frac))]
      ELSE [ok |-> FALSE]

\* str(v): the token itself; it never raises.
str(v) == [ok |-> TRUE, value |-> v]

val_type_call(val_type, v) == IF val_type = "float" THEN float(v) ELSE str(v)

\* The loop leaving at an empty piece (break for continue).
RECURSIVE convert_loop_break_on_empty(_, _, _, _)
convert_loop_break_on_empty(val_type, vals, parsed, trace) ==
  IF vals = <<>> THEN [failed |-> FALSE, parsed |-> parsed, trace |-> trace]
  ELSE LET v == strip(Head(vals))
       IN  IF v = <<>>
           THEN [failed |-> FALSE, parsed |-> parsed, trace |-> trace]
           ELSE LET r == val_type_call(val_type, v)
                    t == Append(trace, [fn |-> val_type, args |-> <<v>>])
                IN  IF r.ok
                    THEN convert_loop_break_on_empty(val_type, Tail(vals),
                                                     Append(parsed, r.value), t)
                    ELSE [failed |-> TRUE, v |-> v, trace |-> t]

\* The loop passing over a piece val_type rejects (the ValueError
\* swallowed).
RECURSIVE convert_loop_skip_rejected(_, _, _, _)
convert_loop_skip_rejected(val_type, vals, parsed, trace) ==
  IF vals = <<>> THEN [failed |-> FALSE, parsed |-> parsed, trace |-> trace]
  ELSE LET v == strip(Head(vals))
       IN  IF v = <<>>
           THEN convert_loop_skip_rejected(val_type, Tail(vals), parsed, trace)
           ELSE LET r == val_type_call(val_type, v)
                    t == Append(trace, [fn |-> val_type, args |-> <<v>>])
                IN  convert_loop_skip_rejected(
                      val_type, Tail(vals),
                      IF r.ok THEN Append(parsed, r.value) ELSE parsed, t)

\* The loop of convert over the pieces: parsed grows by one value per
\* non-empty piece and the loop ends at the first piece val_type rejects.
\* trace lists the val_type calls made.
RECURSIVE convert_loop(_, _, _, _)
convert_loop(val_type, vals, parsed, trace) ==
  IF vals = <<>> THEN [failed |-> FALSE, parsed |-> parsed, trace |-> trace]
  ELSE LET v == strip(Head(vals))
       IN  IF v = <<>>
           THEN convert_loop(val_type, Tail(vals), parsed, trace)
           ELSE LET r == val_type_call(val_type, v)
                    t == Append(trace, [fn |-> val_type, args |-> <<v>>])
                IN  IF r.ok
                    THEN convert_loop(val_type, Tail(vals),
                                      Append(parsed, r.value), t)
                    ELSE [failed |-> TRUE, v |-> v, trace |-> t]

\* A filter fragment is whatever the builder makes of its arguments.
builder_call(builder, field, args) ==
  [fn |-> builder, args |-> <<field, args>>]

fragment(builder, field, args) ==
  [built_by |-> builder, field |-> field, args |-> args]

\* _FilterFieldValues.convert((field, vals), param, ctx)
FilterFieldValues_convert(val_type, builder, field, vals) ==
  LET loop == convert_loop(val_type, re_split(vals), <<>>, <<>>)
  IN  IF loop.failed
      THEN [outcome |-> Fail([text |-> "invalid value", val |-> loop.v]),
            calls |-> loop.trace]
      ELSE [outcome |-> Return(fragment(builder, field, loop.parsed), ""),
            calls |-> Append(loop.trace,
                             builder_call(builder, field, loop.parsed))]

----------------------------------------------------------------------------
(* Range and DateRange                                                     *)

Some(value) == [some |-> TRUE, value |-> value]

None == [some |-> FALSE]

\* planet.api.utils.strp_lenient: a date in a partial ISO-8601 form gives
\* the instant it starts at, anything else gives None.
strp_lenient(text) ==
  CASE text = "2017" -> Some("2017-01-01T00:00:00+00:00")
    [] text = "2017-06" -> Some("2017-06-01T00:00:00+00:00")
    [] text = "2017-06-15" -> Some("2017-06-15T00:00:00+00:00")
    [] OTHER -> None

\* `comp_op in self.comp_ops`
in_list(x, list) == \E i \in 1..Len(list) : list[i] = x

\* Range._parse: the value as given.
Range_parse(val) ==
  [failed |-> FALSE, value |-> val,
   trace |-> << [fn |-> "_parse", args |-> <<val>>] >>]

\* DateRange._parse
DateRange_parse(val) ==
  LET parsed == strp_lenient(val)
      trace == << [fn |-> "_parse", args |-> <<val>>],
                  [fn |-> "strp_lenient", args |-> <<val>>] >>
  IN  IF parsed = None
      THEN [failed |-> TRUE, trace |-> trace,
            outcome |-> Fail([text |-> "invalid date", val |-> val])]
      ELSE [failed |-> FALSE, value |-> parsed.value, trace |-> trace]

\* Range.convert parsing the value before it looks at the operator.
Range_convert_parse_first(class, builder, ops, field, comp_op, val) ==
  LET p == IF class = "DateRange" THEN DateRange_parse(val)
           ELSE Range_parse(val)
  IN  IF p.failed
      THEN [outcome |-> p.outcome, calls |-> p.trace]
      ELSE IF ~in_list(comp_op, ops)
      THEN [outcome |-> Fail([text |-> "invalid operator", val |-> comp_op,
                              allowed |-> ops]),
            calls |-> p.trace]
      ELSE LET args == [op \in {comp_op} |-> p.value]
           IN  [outcome |-> Return(fragment(builder, field, args), ""),
                calls |-> Append(p.trace,
                                 builder_call(builder, field, args))]

\* Range.convert((field, comp_op, val), param, ctx); parse is the _parse
\* of the class ("Range" or "DateRange") and builder its _builder.
Range_convert_as(class, builder, ops, field, comp_op, val) ==
  IF ~in_list(comp_op, ops)
  THEN [outcome |-> Fail([text |-> "invalid operator", val |-> comp_op,
                          allowed |-> ops]),
        calls |-> <<>>]
  ELSE LET p == IF class = "DateRange" THEN DateRange_parse(val)
                ELSE Range_parse(val)
       IN  IF p.failed
           THEN [outcome |-> p.outcome, calls |-> p.trace]
           ELSE LET args == [op \in {comp_op} |-> p.value]
                IN  [outcome |-> Return(fragment(builder, field, args), ""),
                     calls |-> Append(p.trace,
                                      builder_call(builder, field, args))]

----------------------------------------------------------------------------
(* GeomFilter and FilterJSON                                               *)

\* planet.scripts.util.read: "@-" is standard input, "@name" the file
\* of that name, anything else the content itself.
read(val, stdin, file) ==
  CASE val = "@-" -> stdin
    [] val = "@aoi.json" -> file
    [] OTHER -> val

PyNone == [py |-> "None"]

PyInt(n) == [py |-> "int", value |-> n]

PyList(items) == [py |-> "list", items |-> items]

PyDict(items) == [py |-> "dict", items |-> items]

Point == [type |-> "Point", coordinates |-> <<1, 2>>]

\* json.loads on the contents of the model: the parsed value, or
\* ValueError for text that is no JSON document.
json_loads(text) ==
  CASE text = "null" -> [ok |-> TRUE, value |-> PyNone]
    [] text = "0" -> [ok |-> TRUE, value |-> PyInt(0)]
    [] text = "[]" -> [ok |-> TRUE, value |-> PyList(<<>>)]
    [] text = "{}" -> [ok |-> TRUE, value |-> PyDict(<<>>)]
    [] text = "{\"type\": \"Point\", \"coordinates\": [1, 2]}"
         -> [ok |-> TRUE, value |-> PyDict(Point)]
    [] text = "{\"type\": \"Feature\", \"geometry\": {\"type\": \"Point\", \"coordinates\": [1, 2]}}"
         -> [ok |-> TRUE,
             value |-> PyDict([type |-> "Feature", geometry |-> Point])]
    [] text = "{\"type\": \"AndFilter\", \"config\": []}"
         -> [ok |-> TRUE,
             value |-> PyDict([type |-> "AndFilter", config |-> <<>>])]
    [] OTHER -> [ok |-> FALSE]

\* planet.api.utils.geometry_from_json: the geometry of a geometry or of
\* a feature, None when the value holds none.
geometry_from_json(geoj) ==
  IF geoj.py # "dict" \/ geoj.items = <<>> THEN None
  ELSE IF geoj.items.type = "Point" THEN Some(geoj.items)
  ELSE IF geoj.items.type = "Feature" THEN Some(geoj.items.geometry)
  ELSE None

\* GeomFilter.convert(val, param, ctx)
GeomFilter_convert_on(val, stdin, file) ==
  LET content == read(val, stdin, file)
      t1 == << [fn |-> "read", args |-> <<val>>] >>
      t2 == Append(t1, [fn |-> "json.loads", args |-> <<content>>])
  IN  IF content = ""
      THEN [outcome |-> Return(<<>>, ""), calls |-> t1]
      ELSE IF ~json_loads(content).ok
      THEN [outcome |-> Fail([text |-> "invalid GeoJSON"]), calls |-> t2]
      ELSE LET geoj == json_loads(content).value
               geom == geometry_from_json(geoj)
               t3 == Append(t2, [fn |-> "geometry_from_json", args |-> <<geoj>>])
           IN  IF geom = None
               THEN [outcome |-> Fail([text |-> "unable to find geometry in input"]),
                     calls |-> t3]
               ELSE [outcome |-> Return(<<[built_by |-> "geom_filter",
                                           args |-> <<geom.value>>]>>, ""),
                     calls |-> Append(t3, [fn |-> "geom_filter",
                                           args |-> <<geom.value>>])]

\* FilterJSON.convert without its test for empty content.
FilterJSON_convert_on_unguarded(val, stdin, file) ==
  LET content == read(val, stdin, file)
      t2 == << [fn |-> "read", args |-> <<val>>],
               [fn |-> "json.loads", args |-> <<content>>] >>
  IN  IF ~json_loads(content).ok
      THEN [outcome |-> Fail([text |-> "invalid JSON"]), calls |-> t2]
      ELSE [outcome |-> Return(json_loads(content).value, ""), calls |-> t2]

\* FilterJSON.convert(val, param, ctx)
FilterJSON_convert_on(val, stdin, file) ==
  LET content == read(val, stdin, file)
      t1 == << [fn |-> "read", args |-> <<val>>] >>
      t2 == Append(t1, [fn |-> "json.loads", args |-> <<content>>])
  IN  IF content = ""
      THEN [outcome |-> Return(<<>>, ""), calls |-> t1]
      ELSE IF ~json_loads(content).ok
      THEN [outcome |-> Fail([text |-> "invalid JSON"]), calls |-> t2]
      ELSE [outcome |-> Return(json_loads(content).value, ""), calls |-> t2]

----------------------------------------------------------------------------
(* Inputs of the matchers: every vocabulary entry, every short prefix of   *)
(* one and the words of the documentation, plain and with wildcard and     *)
(* pattern characters added, in the spelling given, lowercase and          *)
(* uppercase.                                                              *)

MaxStem == 2

char_upper(c) ==
  IF \E i \in 1..Len(LowerChars) : LowerChars[i] = c
  THEN UpperChars[CHOOSE i \in 1..Len(LowerChars) : LowerChars[i] = c]
  ELSE c

upper(s) == [i \in 1..Len(s) |-> char_upper(s[i])]

Elements(seq) == {seq[i] : i \in 1..Len(seq)}

Min(a, b) == IF a < b THEN a ELSE b

Stems(choices) ==
  {SubSeq(c, 1, k) : c \in Elements(choices), k \in 0..MaxStem}

DocWords ==
  { <<"a","l","l">>,
    <<"p","s","s","c","e","n","e">>,
    <<"v","i","s","u","a","l">>,
    <<"v","i","s">> }

Decorations(b) ==
  { b,
    b \o <<"*">>,
    b \o <<"*", "d">>,
    <<"*">> \o b,
    b \o <<".", "*">>,
    b \o <<"[", "*">>,
    b \o <<".">> }

capitalize(s) ==
  [i \in 1..Len(s) |-> IF i = 1 THEN char_upper(s[i]) ELSE char_lower(s[i])]

Spellings(s) == {s, lower(s), upper(s), capitalize(s)}

MatcherInputs(choices) ==
  UNION { UNION { Spellings(d) : d \in Decorations(b) } :
          b \in Elements(choices) \cup Stems(choices) \cup DocWords }

ItemInputs == MatcherInputs(allowed_item_types)

AssetInputs == MatcherInputs(allowed_asset_types)

(* Inputs of the field/value parsers: every value list of at most          *)
(* MaxValues characters over a word character, a digit, the point and the  *)
(* two delimiters, and the value lists of the documentation.               *)

MaxValues == 4

ValueChars == {"a", "1", ".", " ", ","}

Fields == {"city", "cloud_cover"}

DocValueLists ==
  { <<"R","o","m","e",","," ","P","a","r","i","s"," "," ","L","o","n","d","o","n">>,
    <<"0",".","1",",","0",".","2">>,
    <<"a","b","c">>,
    <<"1","0",","," ","1",".","0","\t","0","1",".","5","0",","," ","x"," ","2">> }

ValueLists ==
  UNION { [1..n -> ValueChars] : n \in 0..MaxValues } \cup DocValueLists

(* Inputs of the range parsers and of the blob resolvers.                  *)

CompTokens == {"lt", "lte", "gt", "gte", "eq", "LT", "l", ""}

RangeValues == {"0.5", "2017", "2017-06", "2017-06-15", "last week", ""}

RangeFields == {"cloud_cover", "acquired"}

BlobContents ==
  { "", " ", "{", "null", "0", "[]", "{}",
    "{\"type\": \"Point\", \"coordinates\": [1, 2]}",
    "{\"type\": \"Feature\", \"geometry\": {\"type\": \"Point\", \"coordinates\": [1, 2]}}",
    "{\"type\": \"AndFilter\", \"config\": []}" }

BlobArguments == {"@-", "@aoi.json"} \cup BlobContents

----------------------------------------------------------------------------
(* State.                                                                  *)

NoCall == [type |-> "", input |-> <<>>]

NoOutcome == [kind |-> ""]

NotYet == [call |-> NoCall, outcome |-> NoOutcome, later |-> 0]

\* How many later conversions the history counts.
MaxLater == 2

Init ==
  /\ item_choices = allowed_item_types
  /\ asset_choices = allowed_asset_types
  /\ comp_ops = <<"lt", "lte", "gt", "gte">>
  /\ call = NoCall
  /\ outcome = NoOutcome
  /\ calls = <<>>
  /\ first = NotYet

\* No conversion is under way: the last one was handed on.
Idle == call = NoCall

\* The history: the first conversion is kept with its outcome, and the
\* conversions after it are counted.
Tracked ==
  first' = IF first = NotYet
           THEN [call |-> call', outcome |-> outcome', later |-> 0]
           ELSE [first EXCEPT !.later = Min(@ + 1, MaxLater)]

Untracked == UNCHANGED first

\* ItemType().convert(val, param, ctx)
ItemType_convert(val) ==
  LET r == LenientChoice_convert(item_choices, "item_choices",
                                 ItemType_allow_all, ItemType_allow_prefix, val)
  IN  /\ Idle
      /\ call' = [type |-> "ItemType", input |-> <<val>>]
      /\ outcome' = r.outcome
      /\ item_choices' = r.choices
      /\ calls' = <<>>
      /\ UNCHANGED <<asset_choices, comp_ops>>

\* AssetType().convert(val, param, ctx)
AssetType_convert(val) ==
  LET r == LenientChoice_convert(asset_choices, "asset_choices",
                                 AssetType_allow_all, AssetType_allow_prefix, val)
  IN  /\ Idle
      /\ call' = [type |-> "AssetType", input |-> <<val>>]
      /\ outcome' = r.outcome
      /\ asset_choices' = r.choices
      /\ calls' = <<>>
      /\ UNCHANGED <<item_choices, comp_ops>>

\* StringIn().convert((field, vals), param, ctx)
StringIn_convert(field, vals) ==
  LET r == FilterFieldValues_convert("str", "string_filter", field, vals)
  IN  /\ Idle
      /\ call' = [type |-> "StringIn", input |-> <<field, vals>>]
      /\ outcome' = r.outcome
      /\ calls' = r.calls
      /\ UNCHANGED <<item_choices, asset_choices, comp_ops>>

\* NumberIn().convert((field, vals), param, ctx)
NumberIn_convert(field, vals) ==
  LET r == FilterFieldValues_convert("float", "num_filter", field, vals)
  IN  /\ Idle
      /\ call' = [type |-> "NumberIn", input |-> <<field, vals>>]
      /\ outcome' = r.outcome
      /\ calls' = r.calls
      /\ UNCHANGED <<item_choices, asset_choices, comp_ops>>

\* Range().convert((field, comp_op, val), param, ctx)
Range_convert(field, comp_op, val) ==
  LET r == Range_convert_as("Range", "range_filter", comp_ops,
                            field, comp_op, val)
  IN  /\ Idle
      /\ call' = [type |-> "Range", input |-> <<field, comp_op, val>>]
      /\ outcome' = r.outcome
      /\ calls' = r.calls
      /\ UNCHANGED <<item_choices, asset_choices, comp_ops>>

\* DateRange().convert((field, comp_op, val), param, ctx)
DateRange_convert(field, comp_op, val) ==
  LET r == Range_convert_as("DateRange", "date_range", comp_ops,
                            field, comp_op, val)
  IN  /\ Idle
      /\ call' = [type |-> "DateRange", input |-> <<field, comp_op, val>>]
      /\ outcome' = r.outcome
      /\ calls' = r.calls
      /\ UNCHANGED <<item_choices, asset_choices, comp_ops>>

\* GeomFilter().convert(val, param, ctx), with standard input and the file
\* holding stdin and file.
GeomFilter_convert(val, stdin, file) ==
  LET r == GeomFilter_convert_on(val, stdin, file)
  IN  /\ Idle
      /\ call' = [type |-> "GeomFilter", input |-> <<val, stdin, file>>]
      /\ outcome' = r.outcome
      /\ calls' = r.calls
      /\ UNCHANGED <<item_choices, asset_choices, comp_ops>>

\* FilterJSON().convert(val, param, ctx)
FilterJSON_convert(val, stdin, file) ==
  LET r == FilterJSON_convert_on(val, stdin, file)
  IN  /\ Idle
      /\ call' = [type |-> "FilterJSON", input |-> <<val, stdin, file>>]
      /\ outcome' = r.outcome
      /\ calls' = r.calls
      /\ UNCHANGED <<item_choices, asset_choices, comp_ops>>

\* click hands the converted value (or the error) on; nothing of the
\* conversion is kept by the parameter type.
Consume ==
  /\ call # NoCall
  /\ call' = NoCall
  /\ outcome' = NoOutcome
  /\ calls' = <<>>
  /\ UNCHANGED <<item_choices, asset_choices, comp_ops, first>>

Next ==
  \/ Idle /\ \E val \in ItemInputs : ItemType_convert(val) /\ Untracked
  \/ Idle /\ \E val \in AssetInputs : AssetType_convert(val) /\ Untracked
  \/ Idle /\ \E field \in Fields, vals \in ValueLists :
       StringIn_convert(field, vals) /\ Untracked
  \/ Idle /\ \E field \in Fields, vals \in ValueLists :
       NumberIn_convert(field, vals) /\ Untracked
  \/ Idle /\ \E field \in RangeFields, comp_op \in CompTokens, val \in RangeValues :
       Range_convert(field, comp_op, val) /\ Untracked
  \/ Idle /\ \E field \in RangeFields, comp_op \in CompTokens, val \in RangeValues :
       DateRange_convert(field, comp_op, val) /\ Untracked
  \/ Idle /\ \E val \in BlobArguments, stdin \in BlobContents, file \in BlobContents :
       GeomFilter_convert(val, stdin, file) /\ Untracked
  \/ Idle /\ \E val \in BlobArguments, stdin \in BlobContents, file \in BlobContents :
       FilterJSON_convert(val, stdin, file) /\ Untracked
  \/ Consume

Spec == Init /\ [][Next]_vars

----------------------------------------------------------------------------
(* Repeated conversions: a few inputs of every parameter type, converted   *)
(* in any order, with the first conversion remembered.                     *)

W_all == <<"a","l","l">>

W_ALL == <<"A","L","L">>

W_psscene_star == <<"p","s","s","c","e","n","e","*">>

W_visual_star == <<"v","i","s","u","a","l","*">>

W_vis == <<"v","i","s">>

W_ANALYTIC == <<"A","N","A","L","Y","T","I","C">>

W_Rome_Paris_London ==
  <<"R","o","m","e",","," ","P","a","r","i","s"," "," ","L","o","n","d","o","n">>

RepeatItemInputs ==
  { W_all, W_ALL, W_psscene_star, <<"r","e">>, <<"x">>, <<"[","*">> }

RepeatAssetInputs ==
  { W_all, W_visual_star, W_vis, W_ANALYTIC, <<"u","d","m">> }

RepeatValueLists ==
  { W_Rome_Paris_London, <<"1",","," ","1",".">>, <<"1"," ","a">>, <<>> }

RepeatCompTokens == {"lte", "eq"}

RepeatRangeValues == {"2017", "0.5"}

RepeatBlobArguments ==
  { "", "{", "{}", "{\"type\": \"Point\", \"coordinates\": [1, 2]}" }

NextRepeat ==
  \/ Idle /\ \E val \in RepeatItemInputs : ItemType_convert(val) /\ Tracked
  \/ Idle /\ \E val \in RepeatAssetInputs : AssetType_convert(val) /\ Tracked
  \/ Idle /\ \E vals \in RepeatValueLists : StringIn_convert("city", vals) /\ Tracked
  \/ Idle /\ \E vals \in RepeatValueLists :
       NumberIn_convert("cloud_cover", vals) /\ Tracked
  \/ Idle /\ \E comp_op \in RepeatCompTokens, val \in RepeatRangeValues :
       Range_convert("cloud_cover", comp_op, val) /\ Tracked
  \/ Idle /\ \E comp_op \in RepeatCompTokens, val \in RepeatRangeValues :
       DateRange_convert("acquired", comp_op, val) /\ Tracked
  \/ Idle /\ \E val \in RepeatBlobArguments : GeomFilter_convert(val, "", "") /\ Tracked
  \/ Idle /\ \E val \in RepeatBlobArguments : FilterJSON_convert(val, "", "") /\ Tracked
  \/ Consume

SpecRepeat == Init /\ [][NextRepeat]_vars

----------------------------------------------------------------------------
(* The claims.                                                             *)

IsMatcherCall == call.type \in {"ItemType", "AssetType"}

\* The vocabulary of the matcher the last call went to.
Vocabulary ==
  IF call.type = "ItemType" THEN allowed_item_types ELSE allowed_asset_types

val_in == call.input[1]

\* C1: an input equal, letter case aside, to an entry m of the matcher's
\* vocabulary is converted to the collection holding m and nothing else.
C1_MemberAlone ==
  IsMatcherCall =>
    \A m \in Elements(Vocabulary) :
      lower(val_in) = lower(m) =>
        outcome.kind = "return" /\ outcome.value = <<m>>

\* The asset type ANALYTIC, an entry that many other entries start with.
C1_Witness ==
  /\ call.type = "AssetType"
  /\ val_in = W_ANALYTIC
  /\ outcome.kind = "return"
  /\ outcome.value = << <<"a","n","a","l","y","t","i","c">> >>

\* C2: a matcher conversion either returns a non-empty collection of
\* entries of its vocabulary or fails with the "invalid choice" usage
\* error that names the input and lists the whole vocabulary.
C2_TwoOutcomes ==
  IsMatcherCall =>
    \/ /\ outcome.kind = "return"
       /\ outcome.value # <<>>
       /\ Elements(outcome.value) \subseteq Elements(Vocabulary)
    \/ /\ outcome.kind = "fail"
       /\ outcome.message.text = "invalid"
       /\ outcome.message.val = val_in
       /\ outcome.message.choose_from = Vocabulary

\* Glob matching as the documentation describes it: "*" stands for any
\* run of characters, every other character for itself, from the start
\* of the entry on.
RECURSIVE glob_match_at(_, _, _, _)
glob_match_at(glob, i, string, j) ==
  IF i > Len(glob) THEN TRUE
  ELSE IF glob[i] = "*"
       THEN \E k \in j..(Len(string) + 1) : glob_match_at(glob, i + 1, string, k)
       ELSE /\ j <= Len(string)
            /\ glob[i] = string[j]
            /\ glob_match_at(glob, i + 1, string, j + 1)

GlobEntries(choices, glob) ==
  LET Test(c) == glob_match_at(lower(glob), 1, lower(c), 1)
  IN  SelectSeq(choices, Test)

\* C3: an input holding "*" is converted to exactly the entries that glob
\* matching selects (psscene* to the two PSScene item types, visual* to
\* visual and visual_xml), and fails when it selects none.
C3_GlobReadLiterally ==
  (IsMatcherCall /\ contains(val_in, "*")) =>
    LET entries == GlobEntries(Vocabulary, val_in)
    IN  /\ entries # <<>> => outcome.kind = "return" /\ outcome.value = entries
        /\ entries = <<>> => outcome.kind = "fail"
        /\ (call.type = "ItemType" /\ val_in = W_psscene_star) =>
             outcome.value = <<allowed_item_types[1], allowed_item_types[2]>>
        /\ (call.type = "AssetType" /\ val_in = W_visual_star) =>
             outcome.value = << <<"v","i","s","u","a","l">>,
                                <<"v","i","s","u","a","l","_","x","m","l">> >>

IsProperPrefixOfEntry(choices, lval) ==
  /\ \E c \in Elements(choices) : startswith(lower(c), lval)
  /\ \A c \in Elements(choices) : lower(c) # lval

\* C4: the item-type matcher turns "all" (in any letter case) into its
\* whole vocabulary, in order, and any other input without "*" into the
\* entries that start with it; the asset-type matcher, with neither mode,
\* rejects "all" and an input that is only a proper prefix of entries.
C4_ModePriority ==
  LET lval == lower(val_in)
      starting == LET Test(c) == startswith(lower(c), lval)
                  IN  SelectSeq(allowed_item_types, Test)
  IN  /\ (call.type = "ItemType" /\ lval = W_all) =>
           /\ outcome.kind = "return"
           /\ outcome.value = allowed_item_types
           /\ Len(outcome.value) = 7
      /\ (call.type = "ItemType" /\ lval # W_all /\ ~contains(lval, "*")) =>
           IF starting = <<>> THEN outcome.kind = "fail"
           ELSE outcome.kind = "return" /\ outcome.value = starting
      /\ (call.type = "AssetType" /\ lval = W_all) =>
           outcome.kind = "fail" /\ outcome.message.text = "invalid"
      /\ (call.type = "AssetType" /\ ~contains(lval, "*")
            /\ IsProperPrefixOfEntry(allowed_asset_types, lval)) =>
           outcome.kind = "fail" /\ outcome.message.text = "invalid"

\* ALL on the item-type matcher: the whole vocabulary.
C4_Witness ==
  /\ call.type = "ItemType"
  /\ val_in = W_ALL
  /\ outcome.kind = "return"
  /\ Len(outcome.value) = 7

\* What the matcher the last call went to makes of another input.
MatcherOutcome(val) ==
  IF call.type = "ItemType"
  THEN LenientChoice_convert(item_choices, "item_choices", ItemType_allow_all,
                             ItemType_allow_prefix, val).outcome
  ELSE LenientChoice_convert(asset_choices, "asset_choices", AssetType_allow_all,
                             AssetType_allow_prefix, val).outcome

\* C5: inputs that differ in letter case only have the same outcome: the
\* same collection, the same kind of failure.
C5_CaseInsensitive ==
  IsMatcherCall =>
    \A other \in Spellings(val_in) :
      LET o == MatcherOutcome(other)
      IN  /\ o.kind = outcome.kind
          /\ o.kind = "return" => o.value = outcome.value

\* PSScene* in mixed case, handled by the glob mode.
C5_Witness ==
  /\ call.type = "ItemType"
  /\ val_in = <<"P","s","s","c","e","n","e","*">>
  /\ outcome.kind = "return"
  /\ Len(outcome.value) = 2

\* The tokens of a value list: its maximal runs of characters that are
\* neither whitespace nor a comma, from left to right.
IsTokenChar(c) == c \notin Whitespace /\ c # ","

TokenStarts(vals) ==
  {i \in 1..Len(vals) :
     IsTokenChar(vals[i]) /\ (i = 1 \/ ~IsTokenChar(vals[i - 1]))}

TokenAt(vals, i) ==
  LET ends == {j \in i..Len(vals) : \A k \in i..j : IsTokenChar(vals[k])}
  IN  SubSeq(vals, i, CHOOSE j \in ends : \A k \in ends : k <= j)

RECURSIVE TokensFrom(_, _)
TokensFrom(vals, starts) ==
  IF starts = {} THEN <<>>
  ELSE LET i == CHOOSE s \in starts : \A t \in starts : s <= t
       IN  <<TokenAt(vals, i)>> \o TokensFrom(vals, starts \ {i})

Tokens(vals) == TokensFrom(vals, TokenStarts(vals))

IsFieldValuesCall == call.type \in {"StringIn", "NumberIn"}

BuilderCalls ==
  LET Test(e) == e.fn \in {"string_filter", "num_filter", "range_filter",
                           "date_range", "geom_filter"}
  IN  SelectSeq(calls, Test)

\* The values the builder is due: the tokens themselves for StringIn,
\* the numbers they denote for NumberIn.
Coerced(tokens) ==
  [k \in 1..Len(tokens) |->
     IF call.type = "StringIn" THEN tokens[k]
     ELSE IF float(tokens[k]).ok THEN float(tokens[k]).value
     ELSE [not_a_number |-> tokens[k]]]

\* C6: a successful StringIn or NumberIn conversion calls its builder
\* once, with the field and the coerced tokens of the value list in their
\* order, each token once; a value list of delimiters only gives the
\* builder the field and no values.
C6_TokensInOrder ==
  IsFieldValuesCall =>
    LET field == call.input[1]
        tokens == Tokens(call.input[2])
        builder == IF call.type = "StringIn" THEN "string_filter" ELSE "num_filter"
    IN  /\ outcome.kind = "return" =>
             /\ outcome.value = fragment(builder, field, Coerced(tokens))
             /\ BuilderCalls = <<builder_call(builder, field, Coerced(tokens))>>
        /\ tokens = <<>> =>
             outcome.kind = "return" /\ outcome.value.args = <<>>
        /\ (call.type = "StringIn" /\ call.input[2] = W_Rome_Paris_London) =>
             /\ outcome.kind = "return"
             /\ outcome.value.args = << <<"R","o","m","e">>,
                                        <<"P","a","r","i","s">>,
                                        <<"L","o","n","d","o","n">> >>

C6_Witness ==
  /\ call.type = "StringIn"
  /\ call.input = <<"city", W_Rome_Paris_London>>
  /\ outcome.kind = "return"
  /\ Len(outcome.value.args) = 3
  /\ Len(BuilderCalls) = 1

\* C7: NumberIn fails at the leftmost token that is no number, naming
\* that token, having looked at no token after it and without calling
\* the builder; StringIn never fails.
C7_FirstBadToken ==
  /\ call.type = "StringIn" => outcome.kind = "return"
  /\ call.type = "NumberIn" =>
       LET tokens == Tokens(call.input[2])
           bad == {k \in 1..Len(tokens) : ~float(tokens[k]).ok}
       IN  bad # {} =>
             LET k0 == CHOOSE k \in bad : \A j \in bad : k <= j
             IN  /\ outcome = Fail([text |-> "invalid value", val |-> tokens[k0]])
                 /\ calls = [k \in 1..k0 |-> [fn |-> "float", args |-> <<tokens[k]>>]]

W_numbers_then_x ==
  <<"1","0",","," ","1",".","0","\t","0","1",".","5","0",","," ","x"," ","2">>

\* 10, 1.0, 01.50 parse, x does not, 2 is never looked at.
C7_Witness ==
  /\ call.type = "NumberIn"
  /\ call.input[2] = W_numbers_then_x
  /\ outcome.kind = "fail"
  /\ outcome.message.val = <<"x">>
  /\ Len(calls) = 4

IsRangeCall == call.type \in {"Range", "DateRange"}

\* C8: Range and DateRange reject an operator token other than lt, lte,
\* gt, gte before the value is parsed or the builder called; DateRange
\* with a valid operator rejects an unparseable date without calling the
\* builder; otherwise the builder is called once with the field and a
\* mapping of that one operator to the parsed value (the value as given
\* for Range).
C8_OperatorFirst ==
  IsRangeCall =>
    LET field == call.input[1]
        comp_op == call.input[2]
        val == call.input[3]
        builder == IF call.type = "Range" THEN "range_filter" ELSE "date_range"
        date == strp_lenient(val)
    IN  IF comp_op \notin {"lt", "lte", "gt", "gte"}
        THEN /\ outcome.kind = "fail"
             /\ outcome.message.text = "invalid operator"
             /\ outcome.message.val = comp_op
             /\ calls = <<>>
        ELSE IF call.type = "DateRange" /\ date = None
        THEN /\ outcome.kind = "fail"
             /\ outcome.message.text = "invalid date"
             /\ BuilderCalls = <<>>
        ELSE /\ outcome.kind = "return"
             /\ outcome.value.built_by = builder
             /\ outcome.value.field = field
             /\ DOMAIN outcome.value.args = {comp_op}
             /\ outcome.value.args[comp_op] =
                  (IF call.type = "Range" THEN val ELSE date.value)
             /\ BuilderCalls = <<builder_call(builder, field, outcome.value.args)>>

\* A date range whose operator and date are both bad: the operator is
\* the one reported.
C8_Witness ==
  /\ call.type = "DateRange"
  /\ call.input = <<"acquired", "eq", "last week">>
  /\ outcome.kind = "fail"
  /\ outcome.message.text = "invalid operator"

IsBlobCall == call.type \in {"GeomFilter", "FilterJSON"}

JsonParsed ==
  LET Test(e) == e.fn = "json.loads" IN SelectSeq(calls, Test) # <<>>

\* C9: a blob resolver returns the empty sequence for empty content
\* without parsing it; fails on content that is no JSON ("invalid
\* GeoJSON" for GeomFilter, "invalid JSON" for FilterJSON); then
\* GeomFilter fails when the JSON holds no geometry and else returns one
\* fragment built by geom_filter, called on that path only, and
\* FilterJSON returns the parsed value as it is.
C9_BlobOrder ==
  IsBlobCall =>
    LET content == read(call.input[1], call.input[2], call.input[3])
        json == json_loads(content)
    IN  /\ IF content = ""
           THEN outcome = Return(<<>>, "") /\ ~JsonParsed
           ELSE IF ~json.ok
           THEN /\ outcome.kind = "fail"
                /\ outcome.message.text =
                     (IF call.type = "GeomFilter" THEN "invalid GeoJSON"
                      ELSE "invalid JSON")
           ELSE IF call.type = "FilterJSON"
           THEN outcome = Return(json.value, "")
           ELSE IF geometry_from_json(json.value) = None
           THEN /\ outcome.kind = "fail"
                /\ outcome.message.text = "unable to find geometry in input"
           ELSE /\ outcome.kind = "return"
                /\ Len(outcome.value) = 1
                /\ outcome.value[1].built_by = "geom_filter"
                /\ outcome.value[1].args = <<geometry_from_json(json.value).value>>
        /\ BuilderCalls # <<>> <=>
             (call.type = "GeomFilter" /\ outcome.kind = "return" /\ content # "")
        /\ Len(BuilderCalls) <= 1

\* Standard input holding a feature: one geometry fragment.
C9_Witness ==
  /\ call.type = "GeomFilter"
  /\ call.input[1] = "@-"
  /\ call.input[2] = "{\"type\": \"Feature\", \"geometry\": {\"type\": \"Point\", \"coordinates\": [1, 2]}}"
  /\ outcome.kind = "return"
  /\ Len(outcome.value) = 1
  /\ Len(BuilderCalls) = 1

\* A returned collection as its holder sees it now: the vocabulary's own
\* list when the matcher handed that out.
Observed(o) ==
  IF o.same_as = "item_choices" THEN item_choices
  ELSE IF o.same_as = "asset_choices" THEN asset_choices
  ELSE o.value

SameOutcome(a, b) ==
  /\ a.kind = b.kind
  /\ a.kind = "return" => Observed(a) = Observed(b)
  /\ a.kind = "fail" => a.message = b.message
  /\ a.kind = "raise" => a.exception = b.exception

\* C10: whatever conversions have run, the three vocabularies are as
\* they were at the start, and a conversion of the input that was
\* converted first (for a blob resolver: the same argument and the same
\* content behind it) has the outcome the first one had.
C10_NoHiddenState ==
  /\ item_choices = allowed_item_types
  /\ asset_choices = allowed_asset_types
  /\ comp_ops = <<"lt", "lte", "gt", "gte">>
  /\ (call # NoCall /\ call.type = first.call.type /\ call.input = first.call.input) =>
       SameOutcome(first.outcome, outcome)

\* all on the item-type matcher, two conversions later all again.
C10_Witness ==
  /\ first.call = [type |-> "ItemType", input |-> <<W_all>>]
  /\ first.later = MaxLater
  /\ call = first.call
  /\ outcome.kind = "return"
  /\ outcome.same_as = "item_choices"
  /\ Observed(first.outcome) = allowed_item_types

====
